---- MODULE Spec2Model ----
(***************************************************************************)
(* The persistence layer of the budget application: the SQLite schema of   *)
(* database_setup.py (tables, UNIQUE / NOT NULL / FOREIGN KEY rules as     *)
(* SQLite enforces them with PRAGMA foreign_keys = ON) and the operations  *)
(* of DatabaseSetup and DatabaseController.                                *)
(*                                                                         *)
(* A table is the set of its rows, a row a record of its columns.          *)
(* created_at (a wall-clock string no operation reads back for a decision) *)
(* is left out of the users rows.  An operation's except branch is taken   *)
(* on the constraint violations its INSERT can raise; faults of the        *)
(* storage medium itself (I/O, a locked file) are not injected.            *)
(*                                                                         *)
(* The schema admits rows no method of DatabaseController writes yet       *)
(* (categories, subcategories and recurring rules with an owner, and       *)
(* transactions that name a rule) and a DELETE FROM users or FROM          *)
(* recurring_transactions; InsertCategory, InsertSubcategory,              *)
(* InsertRecurring, InsertMaterialized, DeleteUser and DeleteRecurring are *)
(* those statements under the schema's constraints.                        *)
(***************************************************************************)
EXTENDS Integers, Sequences, FiniteSets, TLC

\* ------------------------------------------------------------------ bounds
\* successful add_user calls (the users AUTOINCREMENT counter)
MaxUsers == 2
\* runs of seed_default_data
MaxSeeds == 2
\* categories with an owner inserted over a run
MaxUserCategories == 1
\* subcategories with an owner inserted over a run
MaxUserSubcategories == 1
\* recurring rules inserted over a run
MaxRecurring == 2
\* transactions inserted over a run (the transactions AUTOINCREMENT counter)
MaxTransactions == 2

\* ------------------------------------------------------------ SQL values
\* SQL NULL / Python None in an integer column or argument; AUTOINCREMENT
\* ids start at 1, so 0 is never a key.
NULL == 0
\* Python None in a text column or argument.
None == "None"

\* UTF-8 bytes of the text values the model uses (str.encode / SQLite's
\* BINARY collation compare these).
Bytes(s) ==
    CASE s = "Salary" -> <<83, 97, 108, 97, 114, 121>>
      [] s = "Groceries" -> <<71, 114, 111, 99, 101, 114, 105, 101, 115>>
      [] s = "Shopping" -> <<83, 104, 111, 112, 112, 105, 110, 103>>
      [] s = "Books" -> <<66, 111, 111, 107, 115>>
      [] s = "Electronics" -> <<69, 108, 101, 99, 116, 114, 111, 110, 105, 99, 115>>
      [] s = "Gifts" -> <<71, 105, 102, 116, 115>>
      [] s = "2025-07-05" -> <<50, 48, 50, 53, 45, 48, 55, 45, 48, 53>>
      [] s = "2025-07-12" -> <<50, 48, 50, 53, 45, 48, 55, 45, 49, 50>>

Min(a, b) == IF a < b THEN a ELSE b

\* memcmp order of two byte strings: SQLite's default (BINARY) collation,
\* which ORDER BY name / ORDER BY t.date use on TEXT columns.
BytesLess(a, b) ==
    \/ \E i \in 1..Min(Len(a), Len(b)) :
          /\ a[i] < b[i]
          /\ \A j \in 1..(i - 1) : a[j] = b[j]
    \/ /\ Len(a) < Len(b)
       /\ \A j \in 1..Len(a) : a[j] = b[j]

TextLess(s, t) == BytesLess(Bytes(s), Bytes(t))

\* SQL "a = b" in a WHERE clause or a UNIQUE index on a nullable integer
\* column: NULL equals nothing, not even NULL.
SqlEq(a, b) == a # NULL /\ b # NULL /\ a = b

\* ---------------------------------------------------------- input domains
Usernames == {"alice", "bob", None}
Passwords == {"pw1", "pw2"}
Types == {"income", "expense"}
UserCategoryNames == {"Groceries", "Books"}
UserSubcategoryNames == {"Gifts"}
Amounts == {0 - 5, 0, 10}
Dates == {"2025-07-05", "2025-07-12", None}
LedgerDates == Dates \ {None}

\* hashlib.sha256(password.encode('utf-8')).hexdigest() on Passwords.
hash_password(password) ==
    CASE password = "pw1" -> "c592df4a86933b92addc9842402ddf198c638ea9be58916ee6e3734e1e3152f8"
      [] password = "pw2" -> "93915a0a4bf8f634cb1856494dd4304472ad46b9827f541f76b6761c49cc55b0"

\* The seed lists of seed_default_data, cut down to the entries of both
\* types that the operations here name (icons by name).
default_categories ==
    << <<"Salary", "income", "money_bag">>,
       <<"Groceries", "expense", "shopping_cart">>,
       <<"Shopping", "expense", "shopping_bags">> >>

default_subcategories == <<"Electronics">>

\* ------------------------------------------------------------------ state
VARIABLES
    users,          \* rows [id, username, password_hash]
    categories,     \* rows [id, name, type, icon, user_id]
    subcategories,  \* rows [id, name, category_id, user_id]
    recurring,      \* rows [id, name, amount, frequency, next_date, category_id, user_id]
    transactions,   \* rows [id, amount, date, note, payment_method, user_id,
                    \*       category_id, subcategory_id, recurring_id]
    seq,            \* sqlite_sequence: the largest id each table has handed out
    seeds,          \* runs of seed_default_data so far
    last            \* the call just made: its arguments and what it returned

tables == <<users, categories, subcategories, recurring, transactions>>
vars == <<users, categories, subcategories, recurring, transactions, seq, seeds, last>>

\* The call record; a call fills in the fields it has.
NoCall ==
    [op |-> "none", username |-> None, password |-> None, user_id |-> NULL,
     category_id |-> NULL, subcategory_id |-> NULL, amount |-> 0, date |-> None,
     type |-> None, handler |-> "none", ret |-> NULL, rows |-> <<>>,
     ids |-> <<>>, recurring_id |-> NULL]

Init ==
    /\ users = {}
    /\ categories = {}
    /\ subcategories = {}
    /\ recurring = {}
    /\ transactions = {}
    /\ seq = [users |-> 0, categories |-> 0, subcategories |-> 0,
              recurring |-> 0, transactions |-> 0]
    /\ seeds = 0
    /\ last = NoCall

Ids(table) == {r.id : r \in table}

\* With a call's fields filled in.
Call(op) == [NoCall EXCEPT !.op = op]

\* ------------------------------------------------------- DatabaseSetup
\* UNIQUE(name, user_id) of categories: does a row collide with (name, user_id)?
CategoryConflict(cats, name, user_id) ==
    \E c \in cats : c.name = name /\ SqlEq(c.user_id, user_id)

\* UNIQUE(name, category_id, user_id) of subcategories.
SubcategoryConflict(subs, name, category_id, user_id) ==
    \E s \in subs : s.name = name /\ s.category_id = category_id
                    /\ SqlEq(s.user_id, user_id)

\* executemany("INSERT OR IGNORE INTO categories (name, type, icon) ..."):
\* entries i..n of default_categories in order, user_id left NULL; a row
\* that collides is skipped, any other takes the next id.
RECURSIVE SeedCategories(_, _, _)
SeedCategories(i, cats, lastid) ==
    IF i > Len(default_categories) THEN [rows |-> cats, lastid |-> lastid]
    ELSE LET e == default_categories[i] IN
         IF CategoryConflict(cats, e[1], NULL)
         THEN SeedCategories(i + 1, cats, lastid)
         ELSE SeedCategories(i + 1,
                  cats \cup {[id |-> lastid + 1, name |-> e[1], type |-> e[2],
                              icon |-> e[3], user_id |-> NULL]},
                  lastid + 1)

\* executemany("INSERT OR IGNORE INTO subcategories (name, category_id) ...").
RECURSIVE SeedSubcategories(_, _, _, _)
SeedSubcategories(i, subs, lastid, shopping_cat_id) ==
    IF i > Len(default_subcategories) THEN [rows |-> subs, lastid |-> lastid]
    ELSE IF SubcategoryConflict(subs, default_subcategories[i], shopping_cat_id, NULL)
         THEN SeedSubcategories(i + 1, subs, lastid, shopping_cat_id)
         ELSE SeedSubcategories(i + 1,
                  subs \cup {[id |-> lastid + 1, name |-> default_subcategories[i],
                              category_id |-> shopping_cat_id, user_id |-> NULL]},
                  lastid + 1, shopping_cat_id)

\* SELECT id FROM categories WHERE name = 'Shopping' AND user_id IS NULL,
\* fetchone(): the matching rows come out of the (name, user_id) index in
\* rowid order, so the first is the smallest id.
ShoppingRows(cats) == {c.id : c \in {x \in cats : x.name = "Shopping" /\ x.user_id = NULL}}

FirstId(ids) == CHOOSE i \in ids : \A j \in ids : i <= j

seed_default_data ==
    /\ seeds < MaxSeeds
    /\ LET c == SeedCategories(1, categories, seq.categories)
           shopping == ShoppingRows(c.rows)
           s == IF shopping # {}
                THEN SeedSubcategories(1, subcategories, seq.subcategories,
                                       FirstId(shopping))
                ELSE [rows |-> subcategories, lastid |-> seq.subcategories]
       IN /\ categories' = c.rows
          /\ subcategories' = s.rows
          /\ seq' = [seq EXCEPT !.categories = c.lastid, !.subcategories = s.lastid]
    /\ seeds' = seeds + 1
    /\ last' = Call("seed_default_data")
    /\ UNCHANGED <<users, recurring, transactions>>

\* -------------------------------------------- DatabaseController: users
\* The INSERT of add_user against the users table: username NOT NULL UNIQUE.
UserInsertFails(username) ==
    \/ username = None
    \/ \E u \in users : u.username = username

add_user(username, password) ==
    LET password_hash == hash_password(password) IN
    IF UserInsertFails(username)
    THEN \* sqlite3.IntegrityError: "already exists" is printed, None returned
         /\ last' = [Call("add_user") EXCEPT !.username = username,
                        !.password = password, !.handler = "IntegrityError",
                        !.ret = NULL]
         /\ UNCHANGED <<tables, seq, seeds>>
    ELSE /\ seq.users < MaxUsers
         /\ users' = users \cup {[id |-> seq.users + 1, username |-> username,
                                  password_hash |-> password_hash]}
         /\ seq' = [seq EXCEPT !.users = seq.users + 1]
         /\ last' = [Call("add_user") EXCEPT !.username = username,
                        !.password = password, !.ret = seq.users + 1]
         /\ UNCHANGED <<categories, subcategories, recurring, transactions, seeds>>

\* VerifyRows without the password_hash comparison.
VerifyRows_UsernameOnly(username, password_hash) ==
    {u \in users : u.username = username /\ u.username # None}

\* SELECT * FROM users WHERE username = ? AND password_hash = ?
VerifyRows(username, password_hash) ==
    {u \in users : u.username = username /\ u.username # None
                   /\ u.password_hash = password_hash}

\* fetchone(): dict(user_row) in rows, or None as the empty rows.
verify_user(username, password) ==
    LET found == VerifyRows(username, hash_password(password)) IN
    /\ last' = [Call("verify_user") EXCEPT !.username = username,
                   !.password = password,
                   !.rows = IF found # {} THEN <<CHOOSE u \in found : TRUE>> ELSE <<>>]
    /\ UNCHANGED <<tables, seq, seeds>>

\* --------------------------------------- DatabaseController: categories
\* VisibleCategories without the test of the owner.
VisibleCategories_AnyOwner(user_id, category_type) ==
    {c \in categories : c.type = category_type}

\* VisibleCategories without the "OR user_id IS NULL" branch.
VisibleCategories_OwnOnly(user_id, category_type) ==
    {c \in categories : c.type = category_type /\ SqlEq(c.user_id, user_id)}

\* WHERE type = ? AND (user_id = ? OR user_id IS NULL)
VisibleCategories(user_id, category_type) ==
    {c \in categories : c.type = category_type
                        /\ (SqlEq(c.user_id, user_id) \/ c.user_id = NULL)}

\* ORDER BY name: every order of the rows in which names never descend;
\* SQLite leaves the order of rows with equal keys undefined.
RECURSIVE OrderByName(_)
OrderByName(rows) ==
    IF rows = {} THEN {<<>>}
    ELSE UNION {{<<m>> \o t : t \in OrderByName(rows \ {m})} :
                m \in {x \in rows : \A y \in rows : ~TextLess(y.name, x.name)}}

\* SELECT id, name, icon, each row as a dict.
CategoryDicts(ordered) ==
    [i \in 1..Len(ordered) |->
        [id |-> ordered[i].id, name |-> ordered[i].name, icon |-> ordered[i].icon]]

get_categories(user_id, category_type) ==
    /\ \E ordered \in OrderByName(VisibleCategories(user_id, category_type)) :
          last' = [Call("get_categories") EXCEPT !.user_id = user_id,
                      !.type = category_type, !.rows = CategoryDicts(ordered)]
    /\ UNCHANGED <<tables, seq, seeds>>

\* ------------------------------------------ rows the schema lets in
\* INSERT INTO categories with an owner (a user's own category): name and
\* type as the CHECK allows, user_id an existing user (FOREIGN KEY),
\* UNIQUE(name, user_id).
InsertCategory(name, type, user_id) ==
    /\ seq.categories - Cardinality({c \in categories : c.user_id = NULL})
          < MaxUserCategories
    /\ user_id \in Ids(users)
    /\ ~CategoryConflict(categories, name, user_id)
    /\ categories' = categories \cup
          {[id |-> seq.categories + 1, name |-> name, type |-> type,
            icon |-> None, user_id |-> user_id]}
    /\ seq' = [seq EXCEPT !.categories = seq.categories + 1]
    /\ last' = [Call("InsertCategory") EXCEPT !.user_id = user_id, !.type = type]
    /\ UNCHANGED <<users, subcategories, recurring, transactions, seeds>>

\* Is the category one the user sees: its own, or a system default?
VisibleTo(category_id, user_id) ==
    \E c \in categories : c.id = category_id /\ (c.user_id = NULL \/ c.user_id = user_id)

\* INSERT INTO subcategories with an owner: a user's own subcategory under
\* a category that user sees (FOREIGN KEYs on category_id and user_id,
\* UNIQUE(name, category_id, user_id)).
InsertSubcategory(name, category_id, user_id) ==
    /\ seq.subcategories - Cardinality({s \in subcategories : s.user_id = NULL})
          < MaxUserSubcategories
    /\ user_id \in Ids(users)
    /\ VisibleTo(category_id, user_id)
    /\ ~SubcategoryConflict(subcategories, name, category_id, user_id)
    /\ subcategories' = subcategories \cup
          {[id |-> seq.subcategories + 1, name |-> name,
            category_id |-> category_id, user_id |-> user_id]}
    /\ seq' = [seq EXCEPT !.subcategories = seq.subcategories + 1]
    /\ last' = [Call("InsertSubcategory") EXCEPT !.user_id = user_id,
                   !.category_id = category_id]
    /\ UNCHANGED <<users, categories, recurring, transactions, seeds>>

\* INSERT INTO recurring_transactions: a user's rule on a category that
\* user sees (user_id NOT NULL, FOREIGN KEYs on category_id and user_id,
\* frequency within its CHECK).
InsertRecurring(category_id, user_id) ==
    /\ seq.recurring < MaxRecurring
    /\ user_id \in Ids(users)
    /\ VisibleTo(category_id, user_id)
    /\ recurring' = recurring \cup
          {[id |-> seq.recurring + 1, name |-> "Rent", amount |-> 10,
            frequency |-> "monthly", next_date |-> "2025-07-12",
            category_id |-> category_id, user_id |-> user_id]}
    /\ seq' = [seq EXCEPT !.recurring = seq.recurring + 1]
    /\ last' = [Call("InsertRecurring") EXCEPT !.user_id = user_id,
                   !.category_id = category_id]
    /\ UNCHANGED <<users, categories, subcategories, transactions, seeds>>

\* INSERT INTO transactions of the row a rule gives rise to: the rule's
\* amount, category and owner, dated next_date, noted with the rule's name,
\* recurring_id naming the rule (FOREIGN KEY on recurring_id).
InsertMaterialized(recurring_id) ==
    /\ seq.transactions < MaxTransactions
    /\ \E r \in recurring :
          /\ r.id = recurring_id
          /\ transactions' = transactions \cup
                {[id |-> seq.transactions + 1, amount |-> r.amount,
                  date |-> r.next_date, note |-> r.name,
                  payment_method |-> None, user_id |-> r.user_id,
                  category_id |-> r.category_id, subcategory_id |-> NULL,
                  recurring_id |-> r.id]}
    /\ seq' = [seq EXCEPT !.transactions = seq.transactions + 1]
    /\ last' = [Call("InsertMaterialized") EXCEPT !.recurring_id = recurring_id,
                   !.ret = seq.transactions + 1]
    /\ UNCHANGED <<users, categories, subcategories, recurring, seeds>>

\* AfterDeleteRecurring with ON DELETE CASCADE on transactions.recurring_id.
AfterDeleteRecurring_Cascade(recurring_id) ==
    {t \in transactions : t.recurring_id # recurring_id}

\* What DELETE FROM recurring_transactions WHERE id = ? leaves of the
\* transactions table: ON DELETE SET NULL on transactions.recurring_id.
AfterDeleteRecurring(recurring_id) ==
    {IF t.recurring_id = recurring_id
     THEN [t EXCEPT !.recurring_id = NULL] ELSE t : t \in transactions}

\* DELETE FROM recurring_transactions WHERE id = ?; no foreign key without
\* an ON DELETE rule references the table, so nothing can refuse it.
DeleteRecurring(recurring_id) ==
    /\ recurring_id \in Ids(recurring)
    /\ recurring' = {r \in recurring : r.id # recurring_id}
    /\ transactions' = AfterDeleteRecurring(recurring_id)
    /\ last' = [Call("DeleteRecurring") EXCEPT !.recurring_id = recurring_id,
                   !.ret = 1]
    /\ UNCHANGED <<users, categories, subcategories, seq, seeds>>

\* What DELETE FROM users WHERE id = ? leaves of each table once the
\* ON DELETE rules have run: CASCADE on every user_id and on
\* subcategories.category_id, SET NULL on transactions.recurring_id.
AfterDeleteUser(user_id) ==
    LET cats == {c \in categories : c.user_id # user_id}
        subs == {s \in subcategories : s.user_id # user_id
                                       /\ s.category_id \in Ids(cats)}
        recs == {r \in recurring : r.user_id # user_id}
        txs  == {IF t.recurring_id # NULL /\ t.recurring_id \notin Ids(recs)
                 THEN [t EXCEPT !.recurring_id = NULL] ELSE t :
                 t \in {x \in transactions : x.user_id # user_id}}
    IN [users |-> {u \in users : u.id # user_id}, categories |-> cats,
        subcategories |-> subs, recurring |-> recs, transactions |-> txs]

\* The foreign keys without an ON DELETE rule (NO ACTION), which SQLite
\* checks when the statement ends: recurring_transactions.category_id,
\* transactions.category_id, transactions.subcategory_id.
ForeignKeysHold(db) ==
    /\ \A r \in db.recurring : r.category_id \in Ids(db.categories)
    /\ \A t \in db.transactions :
          /\ t.category_id \in Ids(db.categories)
          /\ t.subcategory_id # NULL => t.subcategory_id \in Ids(db.subcategories)

\* DELETE FROM users WHERE id = ? on a connection of _get_connection
\* (PRAGMA foreign_keys = ON): all of it, or IntegrityError and none of it.
DeleteUser(user_id) ==
    LET db == AfterDeleteUser(user_id) IN
    /\ user_id \in Ids(users)
    /\ IF ForeignKeysHold(db)
       THEN /\ users' = db.users
            /\ categories' = db.categories
            /\ subcategories' = db.subcategories
            /\ recurring' = db.recurring
            /\ transactions' = db.transactions
            /\ last' = [Call("DeleteUser") EXCEPT !.user_id = user_id, !.ret = 1]
       ELSE /\ UNCHANGED tables
            /\ last' = [Call("DeleteUser") EXCEPT !.user_id = user_id,
                           !.handler = "IntegrityError"]
    /\ UNCHANGED <<seq, seeds>>

\* ------------------------------------- DatabaseController: transactions
\* TransactionInsertFails on a connection without PRAGMA foreign_keys = ON:
\* the NOT NULL columns only.
TransactionInsertFails_NoForeignKeys(user_id, category_id, date, subcategory_id) ==
    \/ date = None
    \/ user_id = NULL
    \/ category_id = NULL

\* The INSERT of add_transaction against the transactions table: NOT NULL
\* on date, user_id and category_id, the three FOREIGN KEYs.
TransactionInsertFails(user_id, category_id, date, subcategory_id) ==
    \/ date = None
    \/ user_id = NULL
    \/ category_id = NULL
    \/ user_id \notin Ids(users)
    \/ category_id \notin Ids(categories)
    \/ subcategory_id # NULL /\ subcategory_id \notin Ids(subcategories)

\* add_transaction with INSERT OR REPLACE under a UNIQUE (user_id, date): the
\* new row takes the place of the user's earlier row of that date.
add_transaction_Replace(user_id, category_id, amount, date, subcategory_id) ==
    LET call == [Call("add_transaction") EXCEPT !.user_id = user_id,
                    !.category_id = category_id, !.amount = amount,
                    !.date = date, !.subcategory_id = subcategory_id]
    IN
    IF TransactionInsertFails(user_id, category_id, date, subcategory_id)
    THEN /\ last' = [call EXCEPT !.handler = "Error", !.ret = NULL]
         /\ UNCHANGED <<tables, seq, seeds>>
    ELSE /\ seq.transactions < MaxTransactions
         /\ transactions' =
               {t \in transactions : ~(t.user_id = user_id /\ t.date = date)} \cup
               {[id |-> seq.transactions + 1, amount |-> amount, date |-> date,
                 note |-> None, payment_method |-> None, user_id |-> user_id,
                 category_id |-> category_id, subcategory_id |-> subcategory_id,
                 recurring_id |-> NULL]}
         /\ seq' = [seq EXCEPT !.transactions = seq.transactions + 1]
         /\ last' = [call EXCEPT !.ret = seq.transactions + 1]
         /\ UNCHANGED <<users, categories, subcategories, recurring, seeds>>

add_transaction(user_id, category_id, amount, date, subcategory_id) ==
    LET call == [Call("add_transaction") EXCEPT !.user_id = user_id,
                    !.category_id = category_id, !.amount = amount,
                    !.date = date, !.subcategory_id = subcategory_id]
    IN
    IF TransactionInsertFails(user_id, category_id, date, subcategory_id)
    THEN \* except sqlite3.Error: return None
         /\ last' = [call EXCEPT !.handler = "Error", !.ret = NULL]
         /\ UNCHANGED <<tables, seq, seeds>>
    ELSE /\ seq.transactions < MaxTransactions
         /\ transactions' = transactions \cup
               {[id |-> seq.transactions + 1, amount |-> amount, date |-> date,
                 note |-> None, payment_method |-> None, user_id |-> user_id,
                 category_id |-> category_id, subcategory_id |-> subcategory_id,
                 recurring_id |-> NULL]}
         /\ seq' = [seq EXCEPT !.transactions = seq.transactions + 1]
         /\ last' = [call EXCEPT !.ret = seq.transactions + 1]
         /\ UNCHANGED <<users, categories, subcategories, recurring, seeds>>

\* ExportJoin with JOIN in place of LEFT JOIN on subcategories.
ExportJoin_InnerJoin(user_id) ==
    UNION {
      UNION {
        {[t |-> t, c |-> c, subcategory |-> sc.name] :
            sc \in {x \in subcategories : SqlEq(t.subcategory_id, x.id)}}
        : c \in {x \in categories : x.id = t.category_id} }
      : t \in {x \in transactions : SqlEq(x.user_id, user_id)} }

\* FROM transactions t JOIN categories c ON t.category_id = c.id
\* LEFT JOIN subcategories sc ON t.subcategory_id = sc.id WHERE t.user_id = ?
\* : one joined row per match, sc.name NULL where no subcategory matches.
ExportJoin(user_id) ==
    UNION {
      UNION {
        LET scs == {sc \in subcategories : SqlEq(t.subcategory_id, sc.id)} IN
        IF scs = {} THEN {[t |-> t, c |-> c, subcategory |-> None]}
        ELSE {[t |-> t, c |-> c, subcategory |-> sc.name] : sc \in scs}
        : c \in {x \in categories : x.id = t.category_id} }
      : t \in {x \in transactions : SqlEq(x.user_id, user_id)} }

\* ORDER BY t.date DESC: every order in which dates never ascend; SQLite
\* leaves the order of rows with equal dates undefined.
RECURSIVE OrderByDateDesc(_)
OrderByDateDesc(rows) ==
    IF rows = {} THEN {<<>>}
    ELSE UNION {{<<m>> \o rest : rest \in OrderByDateDesc(rows \ {m})} :
                m \in {x \in rows : \A y \in rows : ~TextLess(x.t.date, y.t.date)}}

\* The columns of the SELECT, in the DataFrame's order.
ExportRows(ordered) ==
    [i \in 1..Len(ordered) |->
        [date |-> ordered[i].t.date, category |-> ordered[i].c.name,
         subcategory |-> ordered[i].subcategory, amount |-> ordered[i].t.amount,
         payment_method |-> ordered[i].t.payment_method,
         note |-> ordered[i].t.note, type |-> ordered[i].c.type]]

\* The DataFrame handed to to_excel is rows; ids (not a column of it) names
\* the transaction each row came from.
export_transactions_to_excel(user_id) ==
    /\ \E ordered \in OrderByDateDesc(ExportJoin(user_id)) :
          last' = [Call("export_transactions_to_excel") EXCEPT
                      !.user_id = user_id, !.ret = 1,
                      !.rows = ExportRows(ordered),
                      !.ids = [i \in 1..Len(ordered) |-> ordered[i].t.id]]
    /\ UNCHANGED <<tables, seq, seeds>>

\* ----------------------------------------------------------- behaviours
UserIds == 1..MaxUsers

\* Accounts: every operation that reads or writes the users table.
NextIdentity ==
    \/ \E username \in Usernames, password \in Passwords : add_user(username, password)
    \/ \E username \in Usernames, password \in Passwords : verify_user(username, password)
    \/ \E user_id \in UserIds : DeleteUser(user_id)

SpecIdentity == Init /\ [][NextIdentity]_vars

\* The catalog: seeding, users' own categories, and the category listing.
NextCatalog ==
    \/ seed_default_data
    \/ \E username \in Usernames : add_user(username, "pw1")
    \/ \E name \in UserCategoryNames, type \in Types, user_id \in UserIds :
          InsertCategory(name, type, user_id)
    \/ \E user_id \in UserIds, type \in Types : get_categories(user_id, type)
    \/ \E user_id \in UserIds : DeleteUser(user_id)

SpecCatalog == Init /\ [][NextCatalog]_vars

\* The ledger: transactions recorded against the seeded catalog, and the
\* export of a user's transactions.
NextLedger ==
    \/ seeds = 0 /\ seed_default_data
    \/ \E username \in Usernames : add_user(username, "pw1")
    \/ \E user_id \in UserIds,
          category_id \in 1..seq.categories,
          amount \in Amounts, date \in LedgerDates,
          subcategory_id \in 0..seq.subcategories :
          add_transaction(user_id, category_id, amount, date, subcategory_id)
    \/ \E user_id \in UserIds : export_transactions_to_excel(user_id)

SpecLedger == Init /\ [][NextLedger]_vars

\* Deleting users: users' own categories, subcategories, recurring rules
\* and transactions on top of the seeded catalog, and DELETE FROM users.
NextCascade ==
    \/ seeds = 0 /\ seed_default_data
    \/ \E username \in Usernames \ {None} : add_user(username, "pw1")
    \/ \E user_id \in UserIds : InsertCategory("Books", "expense", user_id)
    \/ \E name \in UserSubcategoryNames, category_id \in 1..seq.categories,
          user_id \in UserIds : InsertSubcategory(name, category_id, user_id)
    \/ \E category_id \in 1..seq.categories, user_id \in UserIds :
          InsertRecurring(category_id, user_id)
    \/ /\ seq.transactions = 0
       /\ \E user_id \in UserIds, category_id \in 1..seq.categories,
             subcategory_id \in 0..seq.subcategories :
             add_transaction(user_id, category_id, 10, "2025-07-05", subcategory_id)
    \/ \E user_id \in UserIds : DeleteUser(user_id)

SpecCascade == Init /\ [][NextCascade]_vars

\* Writes that fail: add_user and add_transaction with a missing value, a
\* taken username, or an id no row has, among writes that succeed.
WriteDates == {"2025-07-05", None}

NextWrites ==
    \/ seeds = 0 /\ seed_default_data
    \/ \E username \in Usernames, password \in Passwords : add_user(username, password)
    \/ \E user_id \in 0..MaxUsers,
          category_id \in {NULL, seq.categories, seq.categories + 1},
          date \in WriteDates,
          subcategory_id \in 0..(seq.subcategories + 1) :
          add_transaction(user_id, category_id, 10, date, subcategory_id)

SpecWrites == Init /\ [][NextWrites]_vars

\* Recurring rules: rules on the seeded catalog, the transactions they give
\* rise to beside transactions recorded by hand, and DELETE of a rule.
NextRecurring ==
    \/ seeds = 0 /\ seed_default_data
    \/ \E username \in Usernames \ {None} : add_user(username, "pw1")
    \/ \E category_id \in 1..seq.categories, user_id \in UserIds :
          InsertRecurring(category_id, user_id)
    \/ \E recurring_id \in 1..seq.recurring : InsertMaterialized(recurring_id)
    \/ \E user_id \in UserIds, category_id \in 1..seq.categories :
          add_transaction(user_id, category_id, 10, "2025-07-05", NULL)
    \/ \E recurring_id \in 1..seq.recurring : DeleteRecurring(recurring_id)

SpecRecurring == Init /\ [][NextRecurring]_vars

\* --------------------------------------------------------------- claims
\* C1: add_transaction called with amount <= 0 returns no id and leaves the
\* transactions table as it was.
C1_NonPositiveAmountRejected ==
    [][(last'.op = "add_transaction" /\ last'.amount <= 0)
          => (last'.ret = NULL /\ transactions' = transactions)]_vars

\* C2: add_transaction called with a subcategory of another category than
\* category_id returns no id and leaves the transactions table as it was.
C2_SubcategoryMismatchRejected ==
    [][(/\ last'.op = "add_transaction"
        /\ \E s \in subcategories : /\ s.id = last'.subcategory_id
                                    /\ s.category_id # last'.category_id)
          => (last'.ret = NULL /\ transactions' = transactions)]_vars

\* C3: once seed_default_data has run, however often, every default
\* category (Groceries / expense among them) and every default Shopping
\* subcategory is there exactly once with no owner.
C3_SeedIdempotent ==
    seeds >= 1 =>
        /\ \A i \in 1..Len(default_categories) :
              Cardinality({c \in categories : /\ c.name = default_categories[i][1]
                                        /\ c.type = default_categories[i][2]
                                        /\ c.user_id = NULL}) = 1
        /\ \A j \in 1..Len(default_subcategories) :
              Cardinality({s \in subcategories : /\ s.name = default_subcategories[j]
                                           /\ s.user_id = NULL}) = 1

\* C4: deleting a user succeeds, leaves no category, subcategory, recurring
\* rule or transaction of that user, and leaves every other row as it was.
C4_DeleteUserCascades ==
    [][last'.op = "DeleteUser" =>
          LET u == last'.user_id IN
          /\ last'.handler = "none"
          /\ u \notin Ids(users')
          /\ users' = {x \in users : x.id # u}
          /\ categories' = {c \in categories : c.user_id # u}
          /\ subcategories' = {s \in subcategories : s.user_id # u}
          /\ recurring' = {r \in recurring : r.user_id # u}
          /\ transactions' = {t \in transactions : t.user_id # u}]_vars

\* C5: get_categories(U1, T) never returns a category owned by another user.
C5_Isolation ==
    last.op = "get_categories" =>
        \A i \in 1..Len(last.rows) :
            \A c \in categories :
                c.id = last.rows[i].id => c.user_id \in {NULL, last.user_id}

\* a listing was returned while another user owned a category of that type
C5_Witness ==
    /\ last.op = "get_categories"
    /\ Len(last.rows) > 0
    /\ \E c \in categories :
          c.type = last.type /\ c.user_id # NULL /\ c.user_id # last.user_id

\* C6: get_categories(U, T) returns exactly the categories of type T owned
\* by nobody or by U, each once, with its name and icon, names ascending.
C6_VisibleSetOrdered ==
    last.op = "get_categories" =>
        LET expected == {c \in categories :
                            c.type = last.type
                            /\ (c.user_id = NULL \/ c.user_id = last.user_id)}
            rows == last.rows
        IN /\ Len(rows) = Cardinality(expected)
           /\ {rows[i].id : i \in 1..Len(rows)} = Ids(expected)
           /\ \A i \in 1..Len(rows) :
                 \E c \in expected : /\ c.id = rows[i].id
                                     /\ c.name = rows[i].name
                                     /\ c.icon = rows[i].icon
           /\ \A i \in 1..Len(rows) : \A j \in (i + 1)..Len(rows) :
                 ~BytesLess(Bytes(rows[j].name), Bytes(rows[i].name))

\* a listing that holds a system default and a category of the user's own,
\* under different names
C6_Witness ==
    /\ last.op = "get_categories"
    /\ \E i, j \in 1..Len(last.rows) :
          /\ last.rows[i].name # last.rows[j].name
          /\ \E c \in categories : c.id = last.rows[i].id /\ c.user_id = NULL
          /\ \E c \in categories : c.id = last.rows[j].id /\ c.user_id = last.user_id

\* C7: add_user with a username that exists returns no id through the
\* duplicate-username handler and leaves the users table (the stored hash
\* with it) as it was, and that outcome is given to nothing but a
\* duplicate username.
C7_DuplicateUsername ==
    [][last'.op = "add_user" =>
          LET taken == \E u \in users : u.username = last'.username IN
          /\ taken => /\ last'.ret = NULL
                      /\ last'.handler = "IntegrityError"
                      /\ users' = users
          /\ last'.handler = "IntegrityError" => taken]_vars

\* C8: verify_user returns the user's row exactly when a user of that name
\* has the hash of the password given, returns the one empty result in
\* every other case, and changes no table.
C8_VerifyUser ==
    [][last'.op = "verify_user" =>
          LET match == {u \in users : /\ u.username = last'.username
                                      /\ u.password_hash = hash_password(last'.password)}
          IN /\ match # {} => \E u \in match : last'.rows = <<u>>
             /\ match = {} => last'.rows = <<>>
             /\ UNCHANGED <<tables, seq>>]_vars

\* verify_user has answered a wrong password for an existing user
C8_Witness ==
    /\ last.op = "verify_user"
    /\ last.rows = <<>>
    /\ \E u \in users : /\ u.username = last.username
                        /\ u.password_hash # hash_password(last.password)

\* C9: the exported rows run from the latest date to the earliest, rows of
\* one date in ascending order of transaction id.
C9_ExportOrderDeterministic ==
    last.op = "export_transactions_to_excel" =>
        \A i \in 1..Len(last.rows) : \A j \in (i + 1)..Len(last.rows) :
            \/ TextLess(last.rows[j].date, last.rows[i].date)
            \/ /\ last.rows[i].date = last.rows[j].date
               /\ last.ids[i] < last.ids[j]

\* C10: the export holds one row for each transaction of the user and none
\* of another user's; a row has the name and type of its transaction's
\* category, and a subcategory name exactly when the transaction has a
\* subcategory.
C10_ExportRows ==
    last.op = "export_transactions_to_excel" =>
        LET own == {t \in transactions : t.user_id = last.user_id}
            rows == last.rows
        IN /\ Len(rows) = Cardinality(own)
           /\ {last.ids[i] : i \in 1..Len(rows)} = Ids(own)
           /\ \A i \in 1..Len(rows) :
                 \E t \in own : \E c \in categories :
                    /\ t.id = last.ids[i]
                    /\ c.id = t.category_id
                    /\ rows[i].category = c.name
                    /\ rows[i].type = c.type
                    /\ rows[i].amount = t.amount
                    /\ rows[i].date = t.date
                    /\ (rows[i].subcategory = None) <=> (t.subcategory_id = NULL)
                    /\ t.subcategory_id # NULL =>
                          \E s \in subcategories : /\ s.id = t.subcategory_id
                                                   /\ s.name = rows[i].subcategory

\* the export of a user with one Groceries transaction without subcategory,
\* while another user has transactions too
C10_Witness ==
    /\ last.op = "export_transactions_to_excel"
    /\ Len(last.rows) = 1
    /\ last.rows[1].category = "Groceries"
    /\ last.rows[1].subcategory = None
    /\ \E t \in transactions : t.user_id # last.user_id
\* C11: a call of add_user or add_transaction that fails (a taken or missing
\* username; a missing date, user or category; a user, category or
\* subcategory id that no row has; or any call that returns no id) returns
\* no id and leaves every table, and the ids handed out, as they were.
C11_FailClosed ==
    [][LET l == last'
           closed == l.ret = NULL /\ UNCHANGED <<tables, seq>>
       IN
       /\ (/\ l.op = "add_user"
           /\ \/ l.username = None
              \/ \E u \in users : u.username = l.username) => closed
       /\ (/\ l.op = "add_transaction"
           /\ \/ l.date = None
              \/ l.user_id \notin Ids(users)
              \/ l.category_id \notin Ids(categories)
              \/ /\ l.subcategory_id # NULL
                 /\ l.subcategory_id \notin Ids(subcategories)) => closed
       /\ (/\ l.op \in {"add_user", "add_transaction"}
           /\ l.ret = NULL \/ l.handler # "none") => closed]_vars

\* A transaction refused for its subcategory id alone, on a ledger that
\* already holds a row.
C11_Witness ==
    /\ last.op = "add_transaction"
    /\ last.ret = NULL
    /\ last.date # None
    /\ last.user_id \in Ids(users)
    /\ last.category_id \in Ids(categories)
    /\ last.subcategory_id # NULL
    /\ last.subcategory_id \notin Ids(subcategories)
    /\ transactions # {}

\* C12: under the operations of DatabaseController, every transaction row
\* stays, with its amount, date, note, payment method, owner, category and
\* subcategory, through every step; an id add_transaction returns is the id
\* of the row it stored, belongs to no other row, and is larger than the id
\* of every row stored before.
C12_AppendOnly ==
    [][/\ \A t \in transactions : \E n \in transactions' :
             /\ n.id = t.id
             /\ n.amount = t.amount
             /\ n.date = t.date
             /\ n.note = t.note
             /\ n.payment_method = t.payment_method
             /\ n.user_id = t.user_id
             /\ n.category_id = t.category_id
             /\ n.subcategory_id = t.subcategory_id
       /\ \A a, b \in transactions' : a.id = b.id => a = b
       /\ (last'.op = "add_transaction" /\ last'.ret # NULL) =>
             /\ \A t \in transactions : t.id < last'.ret
             /\ \E n \in transactions' :
                   /\ n.id = last'.ret
                   /\ n.amount = last'.amount
                   /\ n.date = last'.date
                   /\ n.user_id = last'.user_id
                   /\ n.category_id = last'.category_id
                   /\ n.subcategory_id = last'.subcategory_id]_vars

\* An export after two transactions were recorded, both rows in the store.
C12_Witness ==
    /\ last.op = "export_transactions_to_excel"
    /\ Ids(transactions) = {1, 2}
    /\ \E a, b \in transactions :
          a.id = 1 /\ b.id = 2 /\ a.user_id = b.user_id /\ a.date = b.date

\* C13: DELETE of a recurring rule R removes no transaction and adds none:
\* each transaction is still there under its id, with recurring_id NULL if
\* it was R and every other field as before, and a transaction that did not
\* come from R is the same row as before.
C13_DeleteRecurringNullifies ==
    [][last'.op = "DeleteRecurring" =>
         LET R == last'.recurring_id IN
         /\ R \notin Ids(recurring')
         /\ \A t \in transactions : \E n \in transactions' :
               /\ n.id = t.id
               /\ n.amount = t.amount
               /\ n.date = t.date
               /\ n.note = t.note
               /\ n.payment_method = t.payment_method
               /\ n.user_id = t.user_id
               /\ n.category_id = t.category_id
               /\ n.subcategory_id = t.subcategory_id
               /\ n.recurring_id = IF t.recurring_id = R THEN NULL
                                   ELSE t.recurring_id
         /\ Ids(transactions') = Ids(transactions)
         /\ Cardinality(transactions') = Cardinality(transactions)]_vars

\* A rule was deleted; the transaction it gave rise to is there without a
\* rule, beside a transaction that names the other rule.
C13_Witness ==
    /\ last.op = "DeleteRecurring"
    /\ \E t \in transactions : t.note = "Rent" /\ t.recurring_id = NULL
    /\ \E t \in transactions :
          t.recurring_id # NULL /\ t.recurring_id # last.recurring_id

\* C14: in every state of the store, the category of each transaction is
\* one its owner sees: a category without an owner, or the owner's own.
C14_CategoryVisibleToOwner ==
    \A t \in transactions : \A c \in categories :
        c.id = t.category_id => (c.user_id = NULL \/ c.user_id = t.user_id)

====
